---- MODULE Spec2Model ----
(***************************************************************************)
(* Model of the CementAI Nexus backend (backend/src/index.ts and           *)
(* backend/src/simulation/dataGenerator.ts): the data source switch        *)
(* (simulated / real replay), the broadcast timer, the socket.io           *)
(* subscribers and the HTTP endpoints that read or change that state.      *)
(*                                                                         *)
(* Numbers with one decimal in the source are kept in tenths (1450.5 is    *)
(* 14505); raw_meal_flow (x 1.55) is kept in hundredths.  Time is counted  *)
(* in broadcast intervals: `now' is the number of timer intervals that     *)
(* have elapsed, and every `new Date()' reads it.                          *)
(***************************************************************************)
EXTENDS Integers, Sequences, FiniteSets, TLC

(***************************************************************************)
(* Bounds of the model.                                                    *)
(***************************************************************************)
MaxTicks == 2            \* timer firings explored by Spec
MaxReplayTicks == 25     \* timer firings explored by SpecReplay
NumSockets == 2          \* socket.io clients that may connect
MaxErrorHandlers == 40   \* 'error' listeners on server beyond which startup is cut off
MaxInFlight == 1         \* AI requests that may wait for the AI service at once
MaxAITicks == 1          \* timer firings explored by SpecAI and SpecInput
MaxStatusTicks == 11     \* timer firings explored by SpecStatus
MaxPending == 2          \* fetches of the assistant that may wait at once

(***************************************************************************)
(* Program constants.                                                      *)
(***************************************************************************)
plant_capacity == 2000
equipment_total == 8
maxRetries == 5          \* startServerWithRetry(port, maxRetries = 5)

Sockets == 1..NumSockets

(***************************************************************************)
(* Outcomes of the Math.random() draws that the model follows.             *)
(***************************************************************************)
\* efficiency = 0.8 + 0.15*sin(..) + getRandomInRange(-0.05, 0.05), in percent
EfficiencyDraws == {70, 90}
\* number of units that one generateEquipmentStatus() leaves not 'running'
FaultDraws == {0}
\* getRandomInRange(20, 35) of waste_heat_recovery
HeatDraws == {20}

None == <<>>
Some(x) == <<x>>
Min(a, b) == IF a < b THEN a ELSE b

VARIABLES
    listening,            \* the http server is listening
    timers,               \* number of active setInterval(broadcastData) timers
    now,                  \* elapsed broadcast intervals (the wall clock)
    latestDashboardData,  \* index.ts: let latestDashboardData (None = undefined)
    realDataEnabled,      \* index.ts: let realDataEnabled
    realDataSource,       \* index.ts: let realDataSource
    realDataIndex,        \* index.ts: let realDataIndex
    lastParameters,       \* CementPlantSimulator.lastParameters (None = null)
    simulationRunning,    \* CementPlantSimulator.simulationRunning
    connected,            \* sockets currently connected to io
    response,             \* the HTTP response sent by the last step, if any
    emitted,              \* the socket events emitted by the last step
    received,             \* per socket: timestamps of the dashboard_update events it got
    connectedAt,          \* per socket: the value of `now' when it connected
    hist,                 \* the last operation, the mode and the position before it
    replayRun,            \* ticks since the last load with no toggle since (-1: none)
    portStatus,           \* environment: what a bind to PORT + i meets
    handle,               \* server._handle is set: a listen() has bound the server
    listeningCallbacks,   \* listen callbacks registered on server for 'listening'
    errorHandlers,        \* the 'error' listeners registered on server, in order
    nextTicks,            \* server events queued with process.nextTick
    startup,              \* state of the promise of startServerWithRetry
    exitCode,             \* None while the process runs, Some(code) once it exited
    customSystemPrompt,   \* GeminiService.customSystemPrompt (None = null)
    inflight,             \* AI requests whose fetch has not settled yet
    calls,                \* the external calls issued by the last step
    storeUp,              \* environment: the persistence store can be reached
    analysisData,         \* the record the last step handed to storeQualityAnalysis
    mounted,              \* AIAssistant: the component has rendered and run its effects
    dashboardDataProp,    \* AIAssistant: the dashboardData prop is set
    effectData,           \* AIAssistant: dashboardData as the first render saw it
    inputText,            \* AIAssistant: useState inputText
    isLoading,            \* AIAssistant: useState isLoading
    pending,              \* AIAssistant: fetches to the backend that have not settled
    timeouts              \* AIAssistant: setTimeout callbacks not yet run, as closures

vars == <<listening, timers, now, latestDashboardData, realDataEnabled,
          realDataSource, realDataIndex, lastParameters, simulationRunning,
          connected, response, emitted, received, connectedAt, hist, replayRun,
          portStatus, handle, listeningCallbacks, errorHandlers, nextTicks,
          startup, exitCode, customSystemPrompt, inflight, calls, storeUp,
          analysisData, mounted, dashboardDataProp, effectData, inputText, isLoading,
          pending, timeouts>>

startupVars == <<portStatus, handle, listeningCallbacks, errorHandlers, nextTicks,
                 startup, exitCode>>
aiVars == <<customSystemPrompt, inflight, calls, storeUp, analysisData>>
assistantVars ==
    <<mounted, dashboardDataProp, effectData, inputText, isLoading, pending, timeouts>>

switchVars == <<realDataEnabled, realDataSource, realDataIndex>>
generatorVars == <<lastParameters, simulationRunning>>
socketVars == <<connected, received, connectedAt>>

(***************************************************************************)
(* loadSampleRealData: the ten fixed records.                              *)
(***************************************************************************)
RealRecord(ts, kt, kp, rmp, cmp, pr, cs, fin, co2, ec) ==
    [timestamp |-> ts, kiln_temperature |-> kt, kiln_pressure |-> kp,
     raw_mill_power |-> rmp, cement_mill_power |-> cmp, production_rate |-> pr,
     compressive_strength |-> cs, fineness |-> fin, co2_emissions |-> co2,
     energy_consumption |-> ec]

loadSampleRealData ==
    << RealRecord( 0, 14505, -123, 2850, 3150, 1850, 425, 365, 875, 952),
       RealRecord( 5, 14521, -118, 2890, 3180, 1870, 431, 358, 878, 948),
       RealRecord(10, 14487, -131, 2820, 3120, 1820, 419, 372, 882, 961),
       RealRecord(15, 14553, -109, 2910, 3200, 1895, 442, 351, 869, 937),
       RealRecord(20, 14518, -127, 2875, 3165, 1860, 428, 363, 873, 955),
       RealRecord(25, 14534, -115, 2895, 3185, 1885, 435, 356, 871, 943),
       RealRecord(30, 14499, -134, 2835, 3135, 1835, 421, 369, 885, 968),
       RealRecord(35, 14562, -106, 2925, 3210, 1905, 448, 348, 865, 932),
       RealRecord(40, 14527, -121, 2885, 3175, 1875, 433, 361, 876, 951),
       RealRecord(45, 14503, -129, 2860, 3155, 1850, 426, 367, 880, 959) >>

(***************************************************************************)
(* CementPlantSimulator (dataGenerator.ts).  The random draws are the      *)
(* parameters e (efficiency), q (faulted units) and h (heat factor).       *)
(***************************************************************************)
generateEquipmentStatus(q) ==
    [i \in 1..equipment_total |-> IF i <= q THEN "error" ELSE "running"]

generateProcessParameters(ts, e) ==
    [timestamp |-> ts,
     production_rate |-> (plant_capacity * e) \div 100,
     raw_meal_flow |-> (plant_capacity * 155 * e) \div 100]

generateEnvironmentalData(last, ts, h) ==
    LET productionRate == IF last # None /\ last[1].production_rate # 0
                          THEN last[1].production_rate
                          ELSE (plant_capacity * 80) \div 100
    IN [timestamp |-> ts, waste_heat_recovery |-> productionRate * h]

generatePlantOverview(last, ts, q) ==
    LET equipmentStatus == generateEquipmentStatus(q)
        runningEquipment ==
            Cardinality({i \in DOMAIN equipmentStatus : equipmentStatus[i] = "running"})
    IN [timestamp |-> ts,
        production_rate_current |->
            IF last # None /\ last[1].production_rate # 0
            THEN last[1].production_rate
            ELSE (plant_capacity * 85) \div 100,
        production_rate_target |-> plant_capacity,
        energy_consumption_target |-> 900,
        equipment_running_count |-> runningEquipment,
        equipment_total_count |-> Len(equipmentStatus)]

\* a dashboard whose overview counts the equipment list of the same snapshot
SimulatedDashboardOneSample(last, ts, e, q1, q2, h) ==
    LET overview == generatePlantOverview(last, ts, q2)
        params == generateProcessParameters(ts, e)
        equipment == generateEquipmentStatus(q2)
        env == generateEnvironmentalData(Some(params), ts, h)
    IN [plant_overview |-> overview,
        current_parameters |-> params,
        equipment_status |-> equipment,
        active_alerts |-> <<>>,
        ai_recommendations |-> <<>>,
        environmental_data |-> env]

(***************************************************************************)
(* The simulated dashboard literal of broadcastData and of                 *)
(* GET /api/dashboard/data: the properties are evaluated in source order,  *)
(* plant_overview first, then current_parameters (which replaces           *)
(* lastParameters), then equipment_status, then environmental_data.        *)
(***************************************************************************)
SimulatedDashboard(last, ts, e, q1, q2, h) ==
    LET overview == generatePlantOverview(last, ts, q1)
        params == generateProcessParameters(ts, e)
        equipment == generateEquipmentStatus(q2)
        env == generateEnvironmentalData(Some(params), ts, h)
    IN [plant_overview |-> overview,
        current_parameters |-> params,
        equipment_status |-> equipment,
        active_alerts |-> <<>>,
        ai_recommendations |-> <<>>,
        environmental_data |-> env]

generateDashboardFromRealData(realData, ts, q) ==
    [plant_overview |->
        [timestamp |-> ts,
         overall_efficiency |-> Min(950, 1000 - (realData.energy_consumption - 900) * 2),
         production_rate_current |-> realData.production_rate,
         production_rate_target |-> 2000,
         energy_consumption_current |-> realData.energy_consumption,
         energy_consumption_target |-> 900,
         quality_score_avg |-> Min(950, realData.compressive_strength * 2),
         active_alerts_count |-> 2,
         equipment_running_count |-> 7,
         equipment_total_count |-> 8,
         environmental_compliance |-> TRUE],
     current_parameters |->
        [timestamp |-> ts,
         kiln_temperature |-> realData.kiln_temperature,
         kiln_pressure |-> realData.kiln_pressure,
         raw_mill_power |-> realData.raw_mill_power,
         cement_mill_power |-> realData.cement_mill_power,
         production_rate |-> realData.production_rate,
         energy_consumption |-> realData.energy_consumption,
         alternative_fuel_rate |-> 25,
         raw_meal_flow |-> realData.production_rate * 155,
         cement_fineness |-> realData.fineness,
         clinker_temperature |-> realData.kiln_temperature - 3000,
         exhaust_fan_speed |-> 500,
         preheater_temperature |-> realData.kiln_temperature - 11000],
     equipment_status |-> generateEquipmentStatus(q),
     active_alerts |-> <<>>,
     ai_recommendations |-> <<>>,
     environmental_data |->
        [timestamp |-> ts,
         co2_emissions |-> realData.co2_emissions,
         energy_consumption_specific |-> realData.energy_consumption,
         alternative_fuel_substitution |-> 25,
         waste_heat_recovery |-> realData.production_rate * 25]]

(***************************************************************************)
(* startServerWithRetry (index.ts 996-1029).  Ports are counted from the   *)
(* configured PORT: port i is PORT + i.  Every tryStart calls listen and   *)
(* on('error') on the one `server' object: listen(port, cb) registers cb   *)
(* as a once-listener of 'listening', throws when the server is already    *)
(* bound, and reports the outcome of the bind with process.nextTick;       *)
(* on('error') adds a listener and removes none.                           *)
(***************************************************************************)
Ports == 0..maxRetries
PortStates == {"free", "EADDRINUSE", "EACCES"}

ListeningEvent == [event |-> "listening", code |-> "none"]
ErrorEvent(code) == [event |-> "error", code |-> code]

\* the server before the first listen; thrown: an exception left a listener
NewServer ==
    [handle |-> FALSE, listeningCallbacks |-> 0, errorHandlers |-> <<>>,
     nextTicks |-> <<>>, startup |-> "pending", thrown |-> FALSE]

\* tryStart(currentPort, retriesLeft): server.listen(currentPort, cb), then
\* serverInstance.on('error', ...)
tryStart(srv, currentPort, retriesLeft) ==
    IF srv.handle
    THEN [srv EXCEPT !.thrown = TRUE]
    ELSE [srv EXCEPT
            !.listeningCallbacks = @ + 1,
            !.handle = (portStatus[currentPort] = "free"),
            !.nextTicks = Append(@, IF portStatus[currentPort] = "free"
                                    THEN ListeningEvent
                                    ELSE ErrorEvent(portStatus[currentPort])),
            !.errorHandlers = Append(@, [currentPort |-> currentPort,
                                         retriesLeft |-> retriesLeft])]

\* reject(...) of the startup promise: settles it only while it is pending
reject(srv) == [srv EXCEPT !.startup = IF @ = "pending" THEN "rejected" ELSE @]

\* the 'error' listener that tryStart(currentPort, retriesLeft) registered
onError(srv, h, code) ==
    IF code = "EADDRINUSE"
    THEN IF h.retriesLeft > 0
         THEN tryStart(srv, h.currentPort + 1, h.retriesLeft - 1)
         ELSE reject(srv)
    ELSE reject(srv)

\* server.emit('error', err): the listeners registered when the event is
\* emitted run in order, until one of them throws
RECURSIVE emitError(_, _, _, _)
emitError(srv, listeners, i, code) ==
    IF i > Len(listeners) \/ srv.thrown
    THEN srv
    ELSE emitError(onError(srv, listeners[i], code), listeners, i + 1, code)

\* the state of the server variables as a record, and back
Server ==
    [handle |-> handle, listeningCallbacks |-> listeningCallbacks,
     errorHandlers |-> errorHandlers, nextTicks |-> nextTicks,
     startup |-> startup, thrown |-> FALSE]

\* startServerWithRetry(PORT) at index.ts 1059: tryStart(port, maxRetries)
InitStartServer ==
    LET srv == tryStart(NewServer, 0, maxRetries) IN
    /\ handle = srv.handle
    /\ listeningCallbacks = srv.listeningCallbacks
    /\ errorHandlers = srv.errorHandlers
    /\ nextTicks = srv.nextTicks
    /\ startup = srv.startup
    /\ exitCode = None

(***************************************************************************)
(* Initial state: the module has been evaluated, nothing listens yet.      *)
(***************************************************************************)
InitProgram ==
    /\ listening = FALSE
    /\ timers = 0
    /\ now = 0
    /\ latestDashboardData = None
    /\ realDataEnabled = FALSE
    /\ realDataSource = <<>>
    /\ realDataIndex = 0
    /\ lastParameters = None
    /\ simulationRunning = FALSE
    /\ connected = {}
    /\ response = None
    /\ emitted = {}
    /\ received = [s \in Sockets |-> <<>>]
    /\ connectedAt = [s \in Sockets |-> 0]
    /\ hist = [op |-> "init", enabledBefore |-> FALSE, indexBefore |-> 0]
    /\ replayRun = -1
    /\ InitStartServer
    /\ customSystemPrompt = None
    /\ inflight = <<>>
    /\ calls = {}
    /\ storeUp = TRUE
    /\ analysisData = None
    /\ mounted = FALSE
    /\ dashboardDataProp = FALSE
    /\ effectData = FALSE
    /\ inputText = <<>>
    /\ isLoading = FALSE
    /\ pending = 0
    /\ timeouts = {}

\* the configured port and the ports after it are free
Init ==
    /\ portStatus = [p \in Ports |-> "free"]
    /\ InitProgram

\* any of the ports may be taken, or refused to the process
InitStartup ==
    /\ portStatus \in [Ports -> PortStates]
    /\ InitProgram

\* what hist remembers of a step: the operation, and the mode and position before it
Record(op) == [op |-> op, enabledBefore |-> realDataEnabled, indexBefore |-> realDataIndex]

\* the 'listening' event of server: every listen callback registered so far
\* runs once (startSimulation, setInterval(broadcastData), resolve)
StartServer ==
    /\ exitCode = None
    /\ ~listening
    /\ nextTicks # <<>>
    /\ Head(nextTicks).event = "listening"
    /\ nextTicks' = Tail(nextTicks)
    /\ listening' = TRUE
    /\ simulationRunning' = (listeningCallbacks > 0)
    /\ timers' = timers + listeningCallbacks
    /\ listeningCallbacks' = 0
    /\ startup' = IF listeningCallbacks > 0 /\ startup = "pending"
                  THEN "resolved" ELSE startup
    /\ response' = None
    /\ emitted' = {}
    /\ hist' = Record("listen")
    /\ UNCHANGED <<assistantVars, aiVars, now, latestDashboardData, switchVars, lastParameters,
                   socketVars, replayRun, portStatus, handle, errorHandlers, exitCode>>

\* the 'error' event of server, emitted for a failed listen.  An exception
\* thrown by a listener is an uncaughtException: process.exit(1) (1032-1035)
ListenError ==
    /\ exitCode = None
    /\ nextTicks # <<>>
    /\ Head(nextTicks).event = "error"
    /\ Len(errorHandlers) < MaxErrorHandlers
    /\ LET srv == emitError([Server EXCEPT !.nextTicks = Tail(nextTicks)],
                            errorHandlers, 1, Head(nextTicks).code) IN
       /\ handle' = srv.handle
       /\ listeningCallbacks' = srv.listeningCallbacks
       /\ errorHandlers' = srv.errorHandlers
       /\ startup' = srv.startup
       /\ nextTicks' = IF srv.thrown THEN <<>> ELSE srv.nextTicks
       /\ exitCode' = IF srv.thrown THEN Some(1) ELSE exitCode
    /\ response' = None
    /\ emitted' = {}
    /\ hist' = Record("listen_error")
    /\ UNCHANGED <<assistantVars, aiVars, listening, timers, now, latestDashboardData, switchVars,
                   generatorVars, socketVars, replayRun, portStatus>>

\* .catch of the startup promise (index.ts 1063-1066): process.exit(1).  A
\* promise reaction runs once the process.nextTick queue has drained.
StartupFailed ==
    /\ exitCode = None
    /\ startup = "rejected"
    /\ nextTicks = <<>>
    /\ exitCode' = Some(1)
    /\ response' = None
    /\ emitted' = {}
    /\ hist' = Record("startup_failed")
    /\ UNCHANGED <<assistantVars, aiVars, listening, timers, now, latestDashboardData, switchVars,
                   generatorVars, socketVars, replayRun, portStatus, handle,
                   listeningCallbacks, errorHandlers, nextTicks, startup>>

(***************************************************************************)
(* broadcastData (index.ts 276-304), fired by the interval timer.          *)
(***************************************************************************)
useRealData == realDataEnabled /\ Len(realDataSource) > 0

\* mutant: the position is clamped to the last record instead of wrapping
currentRealDataClamped ==
    realDataSource[Min(realDataIndex, Len(realDataSource) - 1) + 1]

currentRealData == realDataSource[(realDataIndex % Len(realDataSource)) + 1]

broadcastDashboard(ts, e, q1, q2, h) ==
    IF useRealData
    THEN generateDashboardFromRealData(currentRealData, ts, q2)
    ELSE SimulatedDashboard(lastParameters, ts, e, q1, q2, h)

\* what a broadcast makes of the subscribers' logs
receivedAfterBroadcast(dashboardData) ==
    [s \in Sockets |->
        IF s \in connected
        THEN Append(received[s], dashboardData.plant_overview.timestamp)
        ELSE received[s]]

dashboardUpdates(recipients, dashboardData) ==
    {[to |-> s, event |-> "dashboard_update", data |-> dashboardData] : s \in recipients}

\* mutant: the position advances on every tick in REAL mode, loaded or not
broadcastDataCounting(ts, e, q1, q2, h) ==
    LET dashboardData == broadcastDashboard(ts, e, q1, q2, h) IN
    /\ realDataIndex' = IF realDataEnabled THEN realDataIndex + 1 ELSE realDataIndex
    /\ lastParameters' = IF useRealData THEN lastParameters
                         ELSE Some(dashboardData.current_parameters)
    /\ latestDashboardData' = Some(dashboardData)
    /\ emitted' = dashboardUpdates(connected, dashboardData)
    /\ received' = receivedAfterBroadcast(dashboardData)

\* mutant: the snapshot is emitted but cached only when nothing was cached yet
broadcastDataStale(ts, e, q1, q2, h) ==
    LET dashboardData == broadcastDashboard(ts, e, q1, q2, h) IN
    /\ realDataIndex' = IF useRealData THEN realDataIndex + 1 ELSE realDataIndex
    /\ lastParameters' = IF useRealData THEN lastParameters
                         ELSE Some(dashboardData.current_parameters)
    /\ latestDashboardData' = IF latestDashboardData = None THEN Some(dashboardData)
                              ELSE latestDashboardData
    /\ emitted' = dashboardUpdates(connected, dashboardData)
    /\ received' = receivedAfterBroadcast(dashboardData)

broadcastData(ts, e, q1, q2, h) ==
    LET dashboardData == broadcastDashboard(ts, e, q1, q2, h) IN
    /\ IF useRealData
       THEN /\ realDataIndex' = realDataIndex + 1
            /\ lastParameters' = lastParameters
       ELSE /\ realDataIndex' = realDataIndex
            /\ lastParameters' = Some(dashboardData.current_parameters)
    /\ latestDashboardData' = Some(dashboardData)
    /\ emitted' = dashboardUpdates(connected, dashboardData)
    /\ received' = receivedAfterBroadcast(dashboardData)

\* mutant: a timer callback that returns at once while the simulator is stopped
TickWhileRunning(e, q1, q2, h) ==
    /\ timers > 0
    /\ simulationRunning
    /\ now' = now + 1
    /\ broadcastData(now + 1, e, q1, q2, h)
    /\ response' = None
    /\ hist' = Record("tick")
    /\ replayRun' = IF replayRun >= 0 THEN replayRun + 1 ELSE replayRun
    /\ UNCHANGED <<assistantVars, startupVars, aiVars, listening, timers, realDataEnabled, realDataSource,
                   simulationRunning, connected, connectedAt>>

Tick(e, q1, q2, h) ==
    /\ timers > 0
    /\ now' = now + 1
    /\ broadcastData(now + 1, e, q1, q2, h)
    /\ response' = None
    /\ hist' = Record("tick")
    /\ replayRun' = IF replayRun >= 0 THEN replayRun + 1 ELSE replayRun
    /\ UNCHANGED <<assistantVars, startupVars, aiVars, listening, timers, realDataEnabled, realDataSource,
                   simulationRunning, connected, connectedAt>>

(***************************************************************************)
(* io.on('connection') and the socket handlers (index.ts 307-327).         *)
(***************************************************************************)
\* mutant: a new subscriber is sent nothing until the next tick
ConnectNoGreeting(s) ==
    /\ listening
    /\ s \notin connected
    /\ connected' = connected \cup {s}
    /\ connectedAt' = [connectedAt EXCEPT ![s] = now]
    /\ emitted' = {}
    /\ received' = [received EXCEPT ![s] = <<>>]
    /\ response' = None
    /\ hist' = Record("connect")
    /\ UNCHANGED <<assistantVars, startupVars, aiVars, listening, timers, now, latestDashboardData, switchVars,
                   generatorVars, replayRun>>

\* mutant: the greeting goes out with io.emit, to every subscriber
ConnectBroadcasts(s) ==
    /\ listening
    /\ s \notin connected
    /\ connected' = connected \cup {s}
    /\ connectedAt' = [connectedAt EXCEPT ![s] = now]
    /\ IF latestDashboardData # None
       THEN /\ emitted' = dashboardUpdates(connected \cup {s}, latestDashboardData[1])
            /\ received' = [t \in Sockets |->
                              IF t = s
                              THEN <<latestDashboardData[1].plant_overview.timestamp>>
                              ELSE IF t \in connected
                              THEN Append(received[t],
                                          latestDashboardData[1].plant_overview.timestamp)
                              ELSE received[t]]
       ELSE /\ emitted' = {}
            /\ received' = [received EXCEPT ![s] = <<>>]
    /\ response' = None
    /\ hist' = Record("connect")
    /\ UNCHANGED <<assistantVars, startupVars, aiVars, listening, timers, now, latestDashboardData, switchVars,
                   generatorVars, replayRun>>

Connect(s) ==
    /\ listening
    /\ s \notin connected
    /\ connected' = connected \cup {s}
    /\ connectedAt' = [connectedAt EXCEPT ![s] = now]
    /\ IF latestDashboardData # None
       THEN /\ emitted' = dashboardUpdates({s}, latestDashboardData[1])
            /\ received' = [received EXCEPT
                              ![s] = <<latestDashboardData[1].plant_overview.timestamp>>]
       ELSE /\ emitted' = {}
            /\ received' = [received EXCEPT ![s] = <<>>]
    /\ response' = None
    /\ hist' = Record("connect")
    /\ UNCHANGED <<assistantVars, startupVars, aiVars, listening, timers, now, latestDashboardData, switchVars,
                   generatorVars, replayRun>>

Disconnect(s) ==
    /\ s \in connected
    /\ connected' = connected \ {s}
    /\ received' = [received EXCEPT ![s] = <<>>]
    /\ connectedAt' = [connectedAt EXCEPT ![s] = 0]
    /\ response' = None
    /\ emitted' = {}
    /\ hist' = Record("disconnect")
    /\ UNCHANGED <<assistantVars, startupVars, aiVars, listening, timers, now, latestDashboardData, switchVars,
                   generatorVars, replayRun>>

\* socket.on('request_process_data')
RequestProcessData(s, e) ==
    LET params == generateProcessParameters(now, e) IN
    /\ s \in connected
    /\ lastParameters' = Some(params)
    /\ emitted' = {[to |-> s, event |-> "process_data", data |-> params]}
    /\ response' = None
    /\ hist' = Record("request_process_data")
    /\ UNCHANGED <<assistantVars, startupVars, aiVars, listening, timers, now, latestDashboardData, switchVars,
                   simulationRunning, socketVars, replayRun>>

\* generateSensorReadings: the eight sensors, read at ts (the values are
\* draws that nothing else depends on)
SensorIds ==
    <<"KILN_TEMP_01", "KILN_PRESSURE_01", "RAW_MILL_POWER_01", "CEMENT_MILL_POWER_01",
      "PRODUCTION_FLOW_01", "EXHAUST_TEMP_01", "DUST_LEVEL_01", "FINENESS_01">>

generateSensorReadings(ts) ==
    [i \in 1..Len(SensorIds) |-> [timestamp |-> ts, sensor_id |-> SensorIds[i]]]

\* socket.on('request_sensor_data')
RequestSensorData(s) ==
    /\ s \in connected
    /\ emitted' = {[to |-> s, event |-> "sensor_data", data |-> generateSensorReadings(now)]}
    /\ response' = None
    /\ hist' = Record("request_sensor_data")
    /\ UNCHANGED <<assistantVars, startupVars, aiVars, listening, timers, now, latestDashboardData,
                   switchVars, generatorVars, socketVars, replayRun>>

\* the events a socket may send that io.on('connection') registers no
\* listener for: socket.io drops them
UnhandledEvents == {"request_status", "ping"}

UnhandledRequest(s, event) ==
    /\ s \in connected
    /\ emitted' = {}
    /\ response' = None
    /\ hist' = Record(event)
    /\ UNCHANGED <<assistantVars, startupVars, aiVars, listening, timers, now, latestDashboardData,
                   switchVars, generatorVars, socketVars, replayRun>>

(***************************************************************************)
(* HTTP endpoints.                                                         *)
(***************************************************************************)
Ok(route, body) == Some([route |-> route, status |-> 200, body |-> body])
Err(route, status, error) ==
    Some([route |-> route, status |-> status,
          body |-> [success |-> FALSE, error |-> error]])

\* GET /api/process/parameters (index.ts 368-383)
GetProcessParameters(e) ==
    LET params == generateProcessParameters(now, e) IN
    /\ listening
    /\ lastParameters' = Some(params)
    /\ response' = Ok("/api/process/parameters", [success |-> TRUE, data |-> params])
    /\ emitted' = {}
    /\ hist' = Record("get_process_parameters")
    /\ UNCHANGED <<assistantVars, startupVars, aiVars, listening, timers, now, latestDashboardData, switchVars,
                   simulationRunning, socketVars, replayRun>>

\* mutant: the pull endpoint synthesizes a snapshot on every request
GetDashboardDataFresh(e, q1, q2, h) ==
    LET dashboardData == SimulatedDashboard(lastParameters, now, e, q1, q2, h) IN
    /\ listening
    /\ response' = Ok("/api/dashboard/data", [success |-> TRUE, data |-> dashboardData])
    /\ lastParameters' = Some(dashboardData.current_parameters)
    /\ emitted' = {}
    /\ hist' = Record("get_dashboard_data")
    /\ UNCHANGED <<assistantVars, startupVars, aiVars, listening, timers, now, latestDashboardData, switchVars,
                   simulationRunning, socketVars, replayRun>>

\* GET /api/dashboard/data (index.ts 440-474)
GetDashboardData(e, q1, q2, h) ==
    /\ listening
    /\ IF latestDashboardData # None
       THEN /\ response' = Ok("/api/dashboard/data",
                              [success |-> TRUE, data |-> latestDashboardData[1]])
            /\ lastParameters' = lastParameters
       ELSE LET dashboardData == SimulatedDashboard(lastParameters, now, e, q1, q2, h) IN
            /\ response' = Ok("/api/dashboard/data",
                              [success |-> TRUE, data |-> dashboardData])
            /\ lastParameters' = Some(dashboardData.current_parameters)
    /\ emitted' = {}
    /\ hist' = Record("get_dashboard_data")
    /\ UNCHANGED <<assistantVars, startupVars, aiVars, listening, timers, now, latestDashboardData, switchVars,
                   simulationRunning, socketVars, replayRun>>

\* POST /api/real-data/load (index.ts 882-913)
DataTypes == {"sample", "csv"}

LoadResponse(dataType) ==
    IF dataType = "sample"
    THEN Ok("/api/real-data/load",
            [success |-> TRUE, dataType |-> "sample",
             recordCount |-> Len(loadSampleRealData)])
    ELSE Err("/api/real-data/load", 400, "Unsupported data type")

\* mutant: a load that stores the records but leaves the mode as it was
LoadKeepsMode(dataType) ==
    /\ listening
    /\ IF dataType = "sample"
       THEN /\ realDataSource' = loadSampleRealData
            /\ realDataEnabled' = realDataEnabled
            /\ realDataIndex' = 0
            /\ replayRun' = 0
       ELSE UNCHANGED <<switchVars, replayRun>>
    /\ response' = LoadResponse(dataType)
    /\ emitted' = {}
    /\ hist' = Record(IF dataType = "sample" THEN "load" ELSE "load_rejected")
    /\ UNCHANGED <<assistantVars, startupVars, aiVars, listening, timers, now, latestDashboardData, generatorVars,
                   socketVars>>

\* mutant: a load that stores the records but keeps the old position
LoadKeepsIndex(dataType) ==
    /\ listening
    /\ IF dataType = "sample"
       THEN /\ realDataSource' = loadSampleRealData
            /\ realDataEnabled' = TRUE
            /\ realDataIndex' = realDataIndex
            /\ replayRun' = 0
       ELSE UNCHANGED <<switchVars, replayRun>>
    /\ response' = LoadResponse(dataType)
    /\ emitted' = {}
    /\ hist' = Record(IF dataType = "sample" THEN "load" ELSE "load_rejected")
    /\ UNCHANGED <<assistantVars, startupVars, aiVars, listening, timers, now, latestDashboardData, generatorVars,
                   socketVars>>

Load(dataType) ==
    /\ listening
    /\ IF dataType = "sample"
       THEN /\ realDataSource' = loadSampleRealData
            /\ realDataEnabled' = TRUE
            /\ realDataIndex' = 0
            /\ replayRun' = 0
       ELSE UNCHANGED <<switchVars, replayRun>>
    /\ response' = LoadResponse(dataType)
    /\ emitted' = {}
    /\ hist' = Record(IF dataType = "sample" THEN "load" ELSE "load_rejected")
    /\ UNCHANGED <<assistantVars, startupVars, aiVars, listening, timers, now, latestDashboardData, generatorVars,
                   socketVars>>

\* POST /api/real-data/toggle (index.ts 915-933)
ToggleResponse(enabled) ==
    Ok("/api/real-data/toggle",
       [success |-> TRUE, realDataEnabled |-> enabled,
        currentDataSource |-> IF enabled THEN "Real plant data" ELSE "Simulated data"])

\* mutant: a toggle that also rewinds the replay position
ToggleResetsIndex ==
    /\ listening
    /\ realDataEnabled' = ~realDataEnabled
    /\ realDataIndex' = 0
    /\ response' = ToggleResponse(~realDataEnabled)
    /\ emitted' = {}
    /\ hist' = Record("toggle")
    /\ replayRun' = -1
    /\ UNCHANGED <<assistantVars, startupVars, aiVars, listening, timers, now, latestDashboardData, realDataSource,
                   generatorVars, socketVars>>

\* mutant: a toggle that refuses to enter REAL mode while no records are loaded
ToggleGuarded ==
    /\ listening
    /\ IF ~realDataEnabled /\ Len(realDataSource) = 0
       THEN /\ realDataEnabled' = realDataEnabled
            /\ response' = Err("/api/real-data/toggle", 400, "No real data loaded")
       ELSE /\ realDataEnabled' = ~realDataEnabled
            /\ response' = ToggleResponse(~realDataEnabled)
    /\ emitted' = {}
    /\ hist' = Record("toggle")
    /\ replayRun' = -1
    /\ UNCHANGED <<assistantVars, startupVars, aiVars, listening, timers, now, latestDashboardData, realDataSource,
                   realDataIndex, generatorVars, socketVars>>

Toggle ==
    /\ listening
    /\ realDataEnabled' = ~realDataEnabled
    /\ response' = ToggleResponse(~realDataEnabled)
    /\ emitted' = {}
    /\ hist' = Record("toggle")
    /\ replayRun' = -1
    /\ UNCHANGED <<assistantVars, startupVars, aiVars, listening, timers, now, latestDashboardData, realDataSource,
                   realDataIndex, generatorVars, socketVars>>

\* mutant: a status that reports the loaded record whatever the mode is
StatusIgnoringMode ==
    /\ listening
    /\ response' = Ok("/api/real-data/status",
                      [success |-> TRUE,
                       data |-> [realDataEnabled |-> realDataEnabled,
                                 recordCount |-> Len(realDataSource),
                                 currentIndex |-> realDataIndex,
                                 dataSource |-> IF realDataEnabled THEN "Real plant data"
                                                ELSE "Simulated data",
                                 nextRecord |-> IF Len(realDataSource) > 0
                                                THEN Some(currentRealData) ELSE None]])
    /\ emitted' = {}
    /\ hist' = Record("status")
    /\ UNCHANGED <<assistantVars, startupVars, aiVars, listening, timers, now, latestDashboardData, switchVars,
                   generatorVars, socketVars, replayRun>>

\* GET /api/real-data/status (index.ts 935-957)
Status ==
    /\ listening
    /\ response' = Ok("/api/real-data/status",
                      [success |-> TRUE,
                       data |-> [realDataEnabled |-> realDataEnabled,
                                 recordCount |-> Len(realDataSource),
                                 currentIndex |-> realDataIndex,
                                 dataSource |-> IF realDataEnabled THEN "Real plant data"
                                                ELSE "Simulated data",
                                 nextRecord |-> IF useRealData
                                                THEN Some(currentRealData) ELSE None]])
    /\ emitted' = {}
    /\ hist' = Record("status")
    /\ UNCHANGED <<assistantVars, startupVars, aiVars, listening, timers, now, latestDashboardData, switchVars,
                   generatorVars, socketVars, replayRun>>

(***************************************************************************)
(* GeminiService (ai/geminiService.ts).  Texts are sequences of            *)
(* characters; confidence is kept in hundredths (0.85 is 85).              *)
(***************************************************************************)
Spaces(n) == [i \in 1..n |-> " "]
Letters(n) == [i \in 1..n |-> "x"]

RECURSIVE trimStart(_)
trimStart(text) ==
    IF text # <<>> /\ Head(text) = " " THEN trimStart(Tail(text)) ELSE text

RECURSIVE trimEnd(_)
trimEnd(text) ==
    IF text # <<>> /\ text[Len(text)] = " "
    THEN trimEnd(SubSeq(text, 1, Len(text) - 1))
    ELSE text

\* String.prototype.trim
trim(text) == trimEnd(trimStart(text))

\* the opening words of the built-in system prompt
DefaultSystemPrompt ==
    <<"Y", "o", "u", " ", "a", "r", "e", " ", "C", "e", "m", "e", "n", "t", "A", "I">>

buildSystemPrompt ==
    IF customSystemPrompt # None THEN customSystemPrompt[1] ELSE DefaultSystemPrompt

\* what the AI text service does with a fetch
AiOutcomes == {"answer", "unreachable", "error_status", "no_candidates", "no_parts"}

AnswerText == "Reduce the kiln fuel rate by 2% and monitor free lime."
ConnectTroubleText ==
    "I apologize, but I'm having trouble connecting to the AI service right now. ..."
UnableText ==
    "I apologize, but I am currently unable to access the AI system. Please try again later."

\* callGeminiAPI after the fetch settled: the body it returns.  A rejected
\* fetch, a non-OK status and a body without candidates[0].content are thrown
\* and caught inside, and the canned body is returned in their place.
callGeminiAPI(outcome) ==
    CASE outcome = "answer" -> [parts |-> Some(AnswerText)]
      [] outcome = "no_parts" -> [parts |-> None]
      [] OTHER -> [parts |-> Some(ConnectTroubleText)]

\* the lines of the text that name an action (Reduce, Increase, Optimize, ...)
extractRecommendations(text) ==
    IF text = AnswerText THEN <<AnswerText>> ELSE <<>>

\* parseGeminiResponse: None when reading candidates[0].content.parts[0].text throws
parseGeminiResponse(data) ==
    IF data.parts = None
    THEN None
    ELSE Some([response |-> data.parts[1],
               confidence |-> 85,
               recommendations |-> extractRecommendations(data.parts[1]),
               context_used |-> <<"plant_data", "process_parameters",
                                  "environmental_metrics">>])

\* mutant: a failure of the AI service is rethrown to the caller of askGemini
askGeminiRethrowing(outcome) ==
    IF outcome = "answer" THEN parseGeminiResponse(callGeminiAPI(outcome)) ELSE None

\* askGemini once callGeminiAPI returned: Some(GeminiResponse); None would be
\* an exception leaving askGemini
askGemini(outcome) ==
    LET parsed == parseGeminiResponse(callGeminiAPI(outcome)) IN
    IF parsed # None
    THEN parsed
    ELSE Some([response |-> UnableText, confidence |-> 0, context_used |-> <<"error">>])

\* FirebaseService (unnamed/part_002): initializeFirebase leaves the service
\* in demo mode, initialized and without a database
isInitialized == TRUE
db == None

\* storeQualityAnalysis: what becomes of the promise and of the push
storeQualityAnalysis ==
    IF ~isInitialized \/ db = None THEN "skipped"
    ELSE IF storeUp THEN "stored"
    ELSE "logged"

(***************************************************************************)
(* The AI endpoints (index.ts 531-801).  A handler runs up to its await of *)
(* the AI service in one step (the request is then in flight) and from the *)
(* settled fetch to its response in another (AiSettles).                   *)
(***************************************************************************)
AiFrame(op) ==
    /\ emitted' = {}
    /\ hist' = Record(op)
    /\ UNCHANGED <<assistantVars, startupVars, customSystemPrompt, storeUp, listening, timers, now,
                   latestDashboardData, switchVars, generatorVars, socketVars,
                   replayRun>>

\* askGemini up to `await this.callGeminiAPI(fullPrompt)'
AiBegin(route, dashboardData) ==
    /\ Len(inflight) < MaxInFlight
    /\ inflight' = Append(inflight, [route |-> route,
                                     systemPrompt |-> buildSystemPrompt,
                                     dashboardData |-> dashboardData])
    /\ calls' = {"callGeminiAPI"}
    /\ analysisData' = None
    /\ response' = None

\* res.status(status).json({success: false, error}) before any service call
AiRefuse(route, status, error) ==
    /\ response' = Err(route, status, error)
    /\ inflight' = inflight
    /\ calls' = {}
    /\ analysisData' = None

NoPlantData == "No plant data available"
NoPlantDataForAnalysis == "No plant data available for analysis"
NoPlantDataForOptimization == "No plant data available for optimization"

\* POST /api/ai/chat
Chat ==
    /\ listening
    /\ AiBegin("/api/ai/chat", latestDashboardData)
    /\ AiFrame("/api/ai/chat")

\* mutant: recommendations are asked for whether or not a snapshot exists
RecommendationsUnguarded ==
    /\ listening
    /\ AiBegin("/api/ai/recommendations", latestDashboardData)
    /\ AiFrame("/api/ai/recommendations")

\* GET /api/ai/recommendations
Recommendations ==
    /\ listening
    /\ IF latestDashboardData = None
       THEN AiRefuse("/api/ai/recommendations", 400, NoPlantData)
       ELSE AiBegin("/api/ai/recommendations", latestDashboardData)
    /\ AiFrame("/api/ai/recommendations")

\* POST /api/ai/explain-anomaly
ExplainAnomaly ==
    /\ listening
    /\ AiBegin("/api/ai/explain-anomaly", latestDashboardData)
    /\ AiFrame("/api/ai/explain-anomaly")

\* POST /api/ai/quality-fluctuations
QualityFluctuations ==
    /\ listening
    /\ IF latestDashboardData = None
       THEN AiRefuse("/api/ai/quality-fluctuations", 400, NoPlantDataForAnalysis)
       ELSE AiBegin("/api/ai/quality-fluctuations", latestDashboardData)
    /\ AiFrame("/api/ai/quality-fluctuations")

\* POST /api/ai/quality-trends
QualityTrends ==
    /\ listening
    /\ IF latestDashboardData = None
       THEN AiRefuse("/api/ai/quality-trends", 400, NoPlantDataForAnalysis)
       ELSE AiBegin("/api/ai/quality-trends", latestDashboardData)
    /\ AiFrame("/api/ai/quality-trends")

\* req.body.currentData: left out, or an object without plant_overview
CurrentDataInputs == {"absent", "malformed"}

\* POST /api/ai/proactive-quality-corrections: generateProactiveCorrections
\* reads currentData.plant_overview.quality_score_avg while it builds the
\* prompt, which throws for a malformed currentData
ProactiveQualityCorrections(currentData) ==
    /\ listening
    /\ IF latestDashboardData = None
       THEN AiRefuse("/api/ai/proactive-quality-corrections", 400, NoPlantDataForAnalysis)
       ELSE IF currentData = "malformed"
       THEN AiRefuse("/api/ai/proactive-quality-corrections", 500,
                     "Failed to generate proactive quality corrections")
       ELSE AiBegin("/api/ai/proactive-quality-corrections", latestDashboardData)
    /\ AiFrame("/api/ai/proactive-quality-corrections")

\* POST /api/ai/input-fluctuations: analyzeInputFluctuations calls
\* askGemini(prompt) without the snapshot
InputFluctuations ==
    /\ listening
    /\ IF latestDashboardData = None
       THEN AiRefuse("/api/ai/input-fluctuations", 400, NoPlantDataForAnalysis)
       ELSE AiBegin("/api/ai/input-fluctuations", None)
    /\ AiFrame("/api/ai/input-fluctuations")

validObjectives == {"quality", "energy", "production", "environment"}
\* req.body.objective: left out (None), a valid tag, or another string
ObjectiveInputs == {None} \cup {Some(o) : o \in validObjectives \cup {"speed", ""}}

InvalidObjective ==
    "Invalid objective. Must be one of: quality, energy, production, environment"

\* mutant: the objective is passed on to the AI service unchecked
RealTimeOptimizationUnchecked(objective) ==
    /\ listening
    /\ IF latestDashboardData = None
       THEN AiRefuse("/api/ai/real-time-optimization", 400, NoPlantDataForOptimization)
       ELSE AiBegin("/api/ai/real-time-optimization", latestDashboardData)
    /\ AiFrame("/api/ai/real-time-optimization")

\* POST /api/ai/real-time-optimization
RealTimeOptimization(objective) ==
    /\ listening
    /\ IF latestDashboardData = None
       THEN AiRefuse("/api/ai/real-time-optimization", 400, NoPlantDataForOptimization)
       ELSE IF objective = None \/ objective = Some("") \/ objective[1] \notin validObjectives
       THEN AiRefuse("/api/ai/real-time-optimization", 400, InvalidObjective)
       ELSE AiBegin("/api/ai/real-time-optimization", latestDashboardData)
    /\ AiFrame("/api/ai/real-time-optimization")

\* the error a route answers with status 500 when its try block throws
FailureText(route) ==
    CASE route = "/api/ai/chat" -> "Failed to process AI request"
      [] route = "/api/ai/recommendations" -> "Failed to generate recommendations"
      [] route = "/api/ai/explain-anomaly" -> "Failed to explain anomaly"
      [] route = "/api/ai/quality-fluctuations" -> "Failed to analyze quality fluctuations"
      [] route = "/api/ai/quality-trends" -> "Failed to analyze quality trends"
      [] route = "/api/ai/proactive-quality-corrections" ->
             "Failed to generate proactive quality corrections"
      [] route = "/api/ai/input-fluctuations" -> "Failed to analyze input fluctuations"
      [] OTHER -> "Failed to generate optimization recommendations"

\* the routes that hand their analysis to firebaseService.storeQualityAnalysis
PersistingRoutes == {"/api/ai/quality-fluctuations", "/api/ai/proactive-quality-corrections"}

\* the object literal a persisting route passes to storeQualityAnalysis
\* once its analysis has arrived (index.ts 626-630, 703-709)
qualityAnalysis(route, analysis) ==
    IF route \in PersistingRoutes
    THEN Some([type |-> IF route = "/api/ai/quality-fluctuations"
                        THEN "quality_fluctuations" ELSE "proactive_corrections",
               analysis |-> analysis,
               plant_data |-> latestDashboardData[1].plant_overview])
    ELSE None

\* mutant: the route awaits the store and fails when nothing was stored
respondAwaitingStore(route, analysis) ==
    IF route \in PersistingRoutes /\ storeQualityAnalysis # "stored"
    THEN [response |-> Err(route, 500, FailureText(route)),
          calls |-> {"storeQualityAnalysis"},
          analysisData |-> qualityAnalysis(route, analysis)]
    ELSE [response |-> Ok(route, [success |-> TRUE, data |-> analysis]),
          calls |-> IF route \in PersistingRoutes THEN {"storeQualityAnalysis"} ELSE {},
          analysisData |-> qualityAnalysis(route, analysis)]

\* a route after its await: storeQualityAnalysis(...).catch(...) is started
\* and not awaited, then res.json({success: true, data})
respond(route, analysis) ==
    [response |-> Ok(route, [success |-> TRUE, data |-> analysis]),
     calls |-> IF route \in PersistingRoutes THEN {"storeQualityAnalysis"} ELSE {},
     analysisData |-> qualityAnalysis(route, analysis)]

RemoveAt(seq, i) == SubSeq(seq, 1, i - 1) \o SubSeq(seq, i + 1, Len(seq))

\* mutant: a failed call of the AI service leaves the handler as a rejection
\* nobody handles, and process.on('unhandledRejection') ends the process
AiSettlesUnhandled(i, outcome) ==
    /\ i \in 1..Len(inflight)
    /\ IF outcome = "answer"
       THEN /\ response' = respond(inflight[i].route, askGemini(outcome)[1]).response
            /\ calls' = respond(inflight[i].route, askGemini(outcome)[1]).calls
            /\ analysisData' = respond(inflight[i].route, askGemini(outcome)[1]).analysisData
            /\ UNCHANGED <<timers, listening, connected, exitCode>>
       ELSE /\ response' = None
            /\ calls' = {}
            /\ analysisData' = None
            /\ timers' = 0
            /\ listening' = FALSE
            /\ connected' = {}
            /\ exitCode' = Some(1)
    /\ inflight' = RemoveAt(inflight, i)
    /\ emitted' = {}
    /\ hist' = Record("ai_settled")
    /\ UNCHANGED <<assistantVars, portStatus, handle, listeningCallbacks, errorHandlers, nextTicks,
                   startup, customSystemPrompt, storeUp, now, latestDashboardData,
                   switchVars, generatorVars, received, connectedAt, replayRun>>

\* the fetch of in-flight request i settles with `outcome'; the handler runs
\* from there to its response
AiSettles(i, outcome) ==
    LET route == inflight[i].route
        result == askGemini(outcome)
        sent == IF result = None
                THEN [response |-> Err(route, 500, FailureText(route)), calls |-> {},
                      analysisData |-> None]
                ELSE respond(route, result[1])
    IN
    /\ i \in 1..Len(inflight)
    /\ response' = sent.response
    /\ calls' = sent.calls
    /\ analysisData' = sent.analysisData
    /\ inflight' = RemoveAt(inflight, i)
    /\ AiFrame("ai_settled")

(***************************************************************************)
(* POST /api/ai/system-prompt (index.ts 824-860).                          *)
(***************************************************************************)
Text(value) == [type |-> "string", value |-> value]

\* req.body.systemPrompt: left out, a number, and strings around the limit
SystemPromptInputs ==
    { [type |-> "undefined", value |-> <<>>],
      [type |-> "number", value |-> <<"4", "2">>],
      Text(<<>>),
      Text(Spaces(12)),
      Text(Spaces(2) \o Letters(9) \o Spaces(1)),
      Text(Letters(10)),
      Text(Spaces(1) \o Letters(11) \o Spaces(2)) }

\* !systemPrompt || typeof systemPrompt !== 'string'
notAString(systemPrompt) ==
    \/ systemPrompt.type = "undefined"
    \/ systemPrompt.type = "string" /\ systemPrompt.value = <<>>
    \/ systemPrompt.type # "string"

\* mutant: the length is checked before trimming
PostSystemPromptUntrimmed(systemPrompt) ==
    /\ listening
    /\ IF notAString(systemPrompt)
       THEN /\ response' = Err("/api/ai/system-prompt", 400,
                               "System prompt is required and must be a string")
            /\ customSystemPrompt' = customSystemPrompt
       ELSE IF Len(systemPrompt.value) < 10
       THEN /\ response' = Err("/api/ai/system-prompt", 400,
                               "System prompt must be at least 10 characters long")
            /\ customSystemPrompt' = customSystemPrompt
       ELSE /\ response' = Ok("/api/ai/system-prompt",
                              [success |-> TRUE, systemPrompt |-> trim(systemPrompt.value)])
            /\ customSystemPrompt' = Some(trim(systemPrompt.value))
    /\ emitted' = {}
    /\ hist' = Record("/api/ai/system-prompt")
    /\ UNCHANGED <<assistantVars, startupVars, inflight, calls, storeUp, analysisData, listening, timers, now,
                   latestDashboardData, switchVars, generatorVars, socketVars,
                   replayRun>>

PostSystemPrompt(systemPrompt) ==
    /\ listening
    /\ IF notAString(systemPrompt)
       THEN /\ response' = Err("/api/ai/system-prompt", 400,
                               "System prompt is required and must be a string")
            /\ customSystemPrompt' = customSystemPrompt
       ELSE IF Len(trim(systemPrompt.value)) < 10
       THEN /\ response' = Err("/api/ai/system-prompt", 400,
                               "System prompt must be at least 10 characters long")
            /\ customSystemPrompt' = customSystemPrompt
       ELSE /\ response' = Ok("/api/ai/system-prompt",
                              [success |-> TRUE, systemPrompt |-> trim(systemPrompt.value)])
            /\ customSystemPrompt' = Some(trim(systemPrompt.value))
    /\ emitted' = {}
    /\ hist' = Record("/api/ai/system-prompt")
    /\ UNCHANGED <<assistantVars, startupVars, inflight, calls, storeUp, analysisData, listening, timers, now,
                   latestDashboardData, switchVars, generatorVars, socketVars,
                   replayRun>>

\* environment: the persistence store becomes unreachable, or reachable again
StoreChanges ==
    /\ storeUp' = ~storeUp
    /\ response' = None
    /\ emitted' = {}
    /\ hist' = Record("store_changes")
    /\ UNCHANGED <<assistantVars, startupVars, customSystemPrompt, inflight, calls, analysisData, listening, timers,
                   now, latestDashboardData, switchVars, generatorVars, socketVars,
                   replayRun>>

(***************************************************************************)
(* Specifications.                                                         *)
(***************************************************************************)
TickStep == \E e \in EfficiencyDraws, q1 \in FaultDraws, q2 \in FaultDraws, h \in HeatDraws :
                Tick(e, q1, q2, h)

Next ==
    \/ StartServer
    \/ (now < MaxTicks /\ TickStep)
    \/ \E s \in Sockets : Connect(s)
    \/ \E s \in Sockets : Disconnect(s)
    \/ \E s \in Sockets, e \in EfficiencyDraws : RequestProcessData(s, e)
    \/ \E e \in EfficiencyDraws : GetProcessParameters(e)
    \/ \E e \in EfficiencyDraws, q1 \in FaultDraws, q2 \in FaultDraws, h \in HeatDraws :
          GetDashboardData(e, q1, q2, h)
    \/ \E dataType \in DataTypes : Load(dataType)
    \/ Toggle
    \/ Status

Spec == Init /\ [][Next]_vars

\* the data source switch alone, driven through many timer firings
NextReplay ==
    \/ StartServer
    \/ (now < MaxReplayTicks /\ TickStep)
    \/ \E dataType \in DataTypes : Load(dataType)
    \/ Toggle

SpecReplay == Init /\ [][NextReplay]_vars

\* startup against ports that may be taken, and the timer it leaves behind
NextStartup ==
    \/ StartServer
    \/ ListenError
    \/ StartupFailed
    \/ (now < MaxTicks /\ TickStep)

SpecStartup == InitStartup /\ [][NextStartup]_vars

\* the subscribers and their named requests, among ticks
NextSockets ==
    \/ StartServer
    \/ (now < MaxTicks /\ TickStep)
    \/ \E s \in Sockets : Connect(s)
    \/ \E s \in Sockets : Disconnect(s)
    \/ \E s \in Sockets : RequestSensorData(s)
    \/ \E s \in Sockets, e \in EfficiencyDraws : RequestProcessData(s, e)
    \/ \E s \in Sockets, event \in UnhandledEvents : UnhandledRequest(s, event)

SpecSockets == Init /\ [][NextSockets]_vars

\* the subscriber that is followed through the AI requests
Observers == {1}

\* the AI endpoints, among ticks, a subscriber and a store that comes and goes
NextAI ==
    \/ StartServer
    \/ (now < MaxAITicks /\ TickStep)
    \/ \E s \in Observers : Connect(s)
    \/ Chat
    \/ Recommendations
    \/ ExplainAnomaly
    \/ QualityFluctuations
    \/ QualityTrends
    \/ \E currentData \in CurrentDataInputs : ProactiveQualityCorrections(currentData)
    \/ InputFluctuations
    \/ \E objective \in ObjectiveInputs : RealTimeOptimization(objective)
    \/ \E i \in 1..MaxInFlight, outcome \in AiOutcomes : AiSettles(i, outcome)
    \/ StoreChanges

SpecAI == Init /\ [][NextAI]_vars

\* client input that is checked before it is used
NextInput ==
    \/ StartServer
    \/ (now < MaxAITicks /\ TickStep)
    \/ Chat
    \/ \E objective \in ObjectiveInputs : RealTimeOptimization(objective)
    \/ \E i \in 1..MaxInFlight, outcome \in AiOutcomes : AiSettles(i, outcome)
    \/ \E systemPrompt \in SystemPromptInputs : PostSystemPrompt(systemPrompt)

SpecInput == Init /\ [][NextInput]_vars

(***************************************************************************)
(* Properties of the data source switch.                                   *)
(***************************************************************************)
NumRecords == Len(loadSampleRealData)

\* the dashboard built from the record at 0-based index i, at time ts
RealDashboards(i, ts) ==
    {generateDashboardFromRealData(loadSampleRealData[i + 1], ts, q) : q \in FaultDraws}

\* C1: after a successful load, with no load or toggle since, the i-th tick
\* (i = 0, 1, 2, ...) broadcasts the record at index i mod N: the replay
\* wraps around and never falls back to simulation.
C1_CyclicReplay ==
    (hist.op = "tick" /\ replayRun >= 1) =>
        /\ latestDashboardData # None
        /\ latestDashboardData[1] \in RealDashboards((replayRun - 1) % NumRecords, now)
        /\ realDataIndex = replayRun

\* the 25th consecutive tick of a replay of the 10 records used the record at index 4
C1_Witness ==
    /\ hist.op = "tick"
    /\ replayRun = 25
    /\ NumRecords = 10
    /\ latestDashboardData[1].current_parameters.kiln_temperature =
           loadSampleRealData[5].kiln_temperature

\* C2: the replay position advances by exactly one on a tick that consumes a
\* real record, a successful load sets it, and no other operation (a tick in
\* SIMULATED mode, toggle, status query, pull request, socket traffic)
\* changes it.
C2_PositionFrame ==
    [][ /\ (hist'.op = "tick" /\ useRealData) => realDataIndex' = realDataIndex + 1
        /\ ~(hist'.op = "tick" /\ useRealData) /\ hist'.op # "load"
              => realDataIndex' = realDataIndex ]_vars

\* REAL mode was left and entered again, and the position is where it was
C2_Witness ==
    /\ hist.op = "toggle"
    /\ ~hist.enabledBefore
    /\ realDataEnabled
    /\ Len(realDataSource) > 0
    /\ realDataIndex = 1
    /\ hist.indexBefore = 1

\* C3, as claimed: a successful load leaves the active mode as it was.
C3_LoadKeepsMode ==
    hist.op = "load" => realDataEnabled = hist.enabledBefore

\* C3, amended: a successful load leaves the switch in REAL mode whatever the
\* mode was before, and a rejected load leaves the mode as it was.
C3_LoadEnablesReal ==
    /\ hist.op = "load" => realDataEnabled
    /\ hist.op = "load_rejected" => realDataEnabled = hist.enabledBefore

\* a load in SIMULATED mode has switched to REAL
C3_Witness ==
    /\ hist.op = "load"
    /\ ~hist.enabledBefore
    /\ realDataEnabled

\* C4: a successful load stores the loaded sequence and resets the position
\* to 0 whatever it was; the tick that consumes at position 0 broadcasts the
\* record at index 0.
C4_LoadResets ==
    [][ /\ hist'.op = "load" =>
              /\ realDataSource' = loadSampleRealData
              /\ realDataIndex' = 0
        /\ (hist'.op = "tick" /\ useRealData /\ realDataIndex = 0) =>
              /\ latestDashboardData' # None
              /\ latestDashboardData'[1] \in RealDashboards(0, now') ]_vars

\* a load has rewound a replay that had advanced
C4_Witness ==
    /\ hist.op = "load"
    /\ hist.indexBefore >= 1
    /\ realDataIndex = 0
    /\ realDataSource = loadSampleRealData

\* C5: toggle flips the mode and succeeds in every state, loaded or not,
\* and a toggle that directly follows a toggle restores the mode that was
\* active before the first of the two.
C5_ToggleFlips ==
    /\ [](listening => ENABLED Toggle)
    /\ [][ hist'.op = "toggle" =>
             /\ realDataEnabled' = ~realDataEnabled
             /\ response' # None
             /\ response'[1].status = 200
             /\ response'[1].body.realDataEnabled = realDataEnabled'
             /\ (hist.op = "toggle" => realDataEnabled' = hist.enabledBefore) ]_vars

\* REAL mode was entered by a toggle although no records are loaded
C5_Witness ==
    /\ hist.op = "toggle"
    /\ realDataEnabled
    /\ ~hist.enabledBefore
    /\ Len(realDataSource) = 0

\* C6: in REAL mode with no records loaded a tick falls back to a synthesized
\* snapshot, which is cached and broadcast as usual; the position is not
\* advanced and the mode stays REAL.
C6_EmptyRealFallsBack ==
    [][ (hist'.op = "tick" /\ realDataEnabled /\ Len(realDataSource) = 0) =>
          /\ realDataIndex' = realDataIndex
          /\ realDataEnabled'
          /\ latestDashboardData' # None
          /\ \E e \in EfficiencyDraws, q1 \in FaultDraws, q2 \in FaultDraws, h \in HeatDraws :
                latestDashboardData'[1] = SimulatedDashboard(lastParameters, now', e, q1, q2, h)
          /\ emitted' = dashboardUpdates(connected, latestDashboardData'[1]) ]_vars

\* a tick has run in REAL mode with nothing loaded
C6_Witness ==
    /\ hist.op = "tick"
    /\ hist.enabledBefore
    /\ realDataEnabled
    /\ Len(realDataSource) = 0
    /\ latestDashboardData # None

(***************************************************************************)
(* Properties of the broadcast scheduler and the subscribers.              *)
(***************************************************************************)
Distinct(seq) == \A i, j \in DOMAIN seq : i # j => seq[i] # seq[j]

\* C7: a tick produces one snapshot, made at that tick; it replaces the cached
\* latest snapshot and is the data of the one dashboard_update sent to each
\* connected subscriber and to nobody else.
C7_TickBroadcast ==
    hist.op = "tick" =>
        /\ latestDashboardData # None
        /\ latestDashboardData[1].plant_overview.timestamp = now
        /\ emitted = dashboardUpdates(connected, latestDashboardData[1])
        /\ \A s \in connected :
              /\ received[s] # <<>>
              /\ received[s][Len(received[s])] = now

\* the second tick has been broadcast to two subscribers
C7_Witness ==
    /\ hist.op = "tick"
    /\ now = 2
    /\ Cardinality(connected) >= 2
    /\ Cardinality(emitted) >= 2

\* C8: a subscriber that connected after some tick and stayed has received one
\* dashboard_update on connecting and one per tick since, all different.
C8_OnePerTick ==
    \A s \in connected :
        connectedAt[s] >= 1 =>
            /\ Len(received[s]) = (now - connectedAt[s]) + 1
            /\ Distinct(received[s])
            /\ \A i \in DOMAIN received[s] : received[s][i] = connectedAt[s] + i - 1

\* a subscriber connected between the first and the second tick and saw the second
C8_Witness ==
    \E s \in connected :
        /\ connectedAt[s] = 1
        /\ now = 2
        /\ received[s] = <<1, 2>>

C10_PullNeverSynthesizes ==
    [][ hist'.op = "get_dashboard_data" =>
          /\ UNCHANGED <<latestDashboardData, generatorVars, switchVars>>
          /\ latestDashboardData # None
          /\ response'[1].body.data = latestDashboardData[1] ]_vars

\* C10, amended: once a snapshot is cached the pull returns it and changes no
\* state; while none is cached (before the first tick) it synthesizes one,
\* which replaces the generator's retained parameters and is returned
\* without being cached.
C10_PullReadsCacheOrSynthesizes ==
    [][ hist'.op = "get_dashboard_data" =>
          /\ response' # None
          /\ response'[1].status = 200
          /\ UNCHANGED <<latestDashboardData, switchVars, simulationRunning>>
          /\ IF latestDashboardData # None
             THEN /\ response'[1].body.data = latestDashboardData[1]
                  /\ UNCHANGED lastParameters
             ELSE /\ now = 0
                  /\ \E e \in EfficiencyDraws, q1 \in FaultDraws, q2 \in FaultDraws,
                        h \in HeatDraws :
                        response'[1].body.data =
                            SimulatedDashboard(lastParameters, now, e, q1, q2, h)
                  /\ lastParameters' = Some(response'[1].body.data.current_parameters) ]_vars

\* a pull after a tick returned the snapshot of that tick
C10_Witness ==
    /\ hist.op = "get_dashboard_data"
    /\ now >= 1
    /\ latestDashboardData # None
    /\ response # None
    /\ response[1].body.data = latestDashboardData[1]
    /\ response[1].body.data.plant_overview.timestamp = now

(***************************************************************************)
(* Properties of the startup.                                              *)
(***************************************************************************)
\* C11: once the server listens there is exactly one active broadcast timer,
\* also when it came to listen only after EADDRINUSE retries.
C11_SingleTimer ==
    listening => timers = 1

AllPortsInUse == \A p \in Ports : portStatus[p] = "EADDRINUSE"

\* C19: with the configured port and every retry port in use, startup tries
\* each next port once (maxRetries retries after the first attempt), gives up
\* only then, ends the process with exit code 1 and never starts a timer.
C19_GivesUpAfterRetries ==
    AllPortsInUse =>
        /\ timers = 0
        /\ \A i, j \in 1..Len(errorHandlers) :
              errorHandlers[i].currentPort = errorHandlers[j].currentPort => i = j
        /\ startup = "rejected" => Len(errorHandlers) = maxRetries + 1
        /\ exitCode # None => exitCode = Some(1) /\ startup = "rejected"

(***************************************************************************)
(* Properties of the AI endpoints.                                         *)
(***************************************************************************)
AiFailures == AiOutcomes \ {"answer"}

\* C12: a chat request made while no snapshot is cached, whose call of the AI
\* backend fails (unreachable, non-OK status, malformed body), is answered
\* with the text 'I apologize, but I am currently unable to access the AI
\* system. Please try again later.', confidence 0 and context_used = ["error"].
C12_ChatFallback ==
    [][ \A i \in 1..MaxInFlight, outcome \in AiFailures :
          ( /\ AiSettles(i, outcome)
            /\ inflight[i].route = "/api/ai/chat"
            /\ inflight[i].dashboardData = None )
          => response' = Ok("/api/ai/chat",
                            [success |-> TRUE,
                             data |-> [response |-> UnableText, confidence |-> 0,
                                       context_used |-> <<"error">>]]) ]_vars

AiRoutes ==
    {"/api/ai/chat", "/api/ai/recommendations", "/api/ai/explain-anomaly",
     "/api/ai/quality-fluctuations", "/api/ai/quality-trends",
     "/api/ai/proactive-quality-corrections", "/api/ai/input-fluctuations",
     "/api/ai/real-time-optimization"}

\* C13: on every AI endpoint a failure of the AI text service is answered with
\* status 200, success and one of the canned fallback responses, never 500.
C13_FailureRecovered ==
    [][ \A i \in 1..MaxInFlight, outcome \in AiFailures :
          AiSettles(i, outcome)
          => /\ response' # None
             /\ inflight[i].route \in AiRoutes
             /\ response'[1].route = inflight[i].route
             /\ response'[1].status = 200
             /\ response'[1].body.success
             /\ response'[1].body.data.response \in {ConnectTroubleText, UnableText} ]_vars

\* an analysis endpoint just answered a failed AI call with the canned text
C13_Witness ==
    /\ hist.op = "ai_settled"
    /\ response # None
    /\ response[1].route = "/api/ai/quality-trends"
    /\ response[1].status = 200
    /\ response[1].body.data.response = ConnectTroubleText

\* the AI text service is under no obligation to answer; the server's own
\* steps (the listen callback, the interval timer) are taken when they can be
SpecAILive ==
    /\ SpecAI
    /\ WF_vars(StartServer)
    /\ WF_vars(now < MaxAITicks /\ TickStep)

\* C14: every AI request eventually completes, also when the AI text service
\* never answers: a request in flight is eventually answered.
C14_RequestCompletes ==
    (inflight # <<>>) ~> (inflight = <<>>)

\* the endpoints that refuse to work without a snapshot
ContextRoutes == AiRoutes \ {"/api/ai/chat", "/api/ai/explain-anomaly"}

NoPlantDataErrors == {NoPlantData, NoPlantDataForAnalysis, NoPlantDataForOptimization}

\* C15: each of the six analysis endpoints that need plant context, invoked
\* while no snapshot exists, answers 400 with a 'No plant data available'
\* error, calls neither the AI service nor the store, and starts no request.
C15_NoContextRefused ==
    [][ (hist'.op \in ContextRoutes /\ latestDashboardData = None)
        => /\ \E error \in NoPlantDataErrors : response' = Err(hist'.op, 400, error)
           /\ calls' = {}
           /\ inflight' = inflight ]_vars

\* the recommendations endpoint just refused a request made before the first tick
C15_Witness ==
    /\ hist.op = "/api/ai/recommendations"
    /\ latestDashboardData = None
    /\ response = Err("/api/ai/recommendations", 400, NoPlantData)
    /\ calls = {}

\* a system-prompt override that the route must refuse
refusedPrompt(systemPrompt) ==
    systemPrompt.type # "string" \/ Len(trim(systemPrompt.value)) < 10

\* C16: an optimization request whose objective is missing or not one of the
\* four tags is answered 400 without a call of the AI service, and a
\* system-prompt override that is missing, not a string or shorter than 10
\* characters after trimming is answered 400 and leaves the stored prompt as
\* it was.
C16_MalformedInputRefused ==
    [][ /\ \A objective \in ObjectiveInputs :
              ( /\ RealTimeOptimization(objective)
                /\ (objective = None \/ objective[1] \notin validObjectives) )
              => /\ response' # None
                 /\ response'[1].status = 400
                 /\ calls' = {}
                 /\ inflight' = inflight
        /\ \A systemPrompt \in SystemPromptInputs :
              (PostSystemPrompt(systemPrompt) /\ refusedPrompt(systemPrompt))
              => /\ response' # None
                 /\ response'[1].status = 400
                 /\ customSystemPrompt' = customSystemPrompt ]_vars

\* an override of nine letters between spaces was just refused, and the
\* prompt stored before it is still there
C16_Witness ==
    /\ hist.op = "/api/ai/system-prompt"
    /\ response = Err("/api/ai/system-prompt", 400,
                      "System prompt must be at least 10 characters long")
    /\ customSystemPrompt = Some(Letters(11))

\* C17: whether the persistence store can be reached or not, the endpoints
\* that persist their analysis answer 200 with success and the analysis, and
\* a tick is never held back.
C17_StoreNeverMatters ==
    /\ [][ \A i \in 1..MaxInFlight, outcome \in AiOutcomes :
             (AiSettles(i, outcome) /\ inflight[i].route \in PersistingRoutes)
             => /\ "storeQualityAnalysis" \in calls'
                /\ response' = Ok(inflight[i].route,
                                  [success |-> TRUE, data |-> askGemini(outcome)[1]]) ]_vars
    /\ [](timers > 0 => ENABLED TickStep)

\* the quality-fluctuations endpoint just handed an analysis to the store
\* while the store could not be reached, and answered with the analysis
C17_Witness ==
    /\ hist.op = "ai_settled"
    /\ ~storeUp
    /\ "storeQualityAnalysis" \in calls
    /\ response # None
    /\ response[1].route = "/api/ai/quality-fluctuations"
    /\ response[1].status = 200
    /\ response[1].body.data.response = AnswerText

\* a step in which one of the recoverable errors happened: a request refused
\* for missing context or malformed input, a failed call of the AI service,
\* an analysis handed to a store that cannot be reached
ErrorStep ==
    \/ response' # None /\ response'[1].status >= 400
    \/ \E i \in 1..MaxInFlight, outcome \in AiFailures : AiSettles(i, outcome)
    \/ hist'.op = "ai_settled" /\ "storeQualityAnalysis" \in calls' /\ ~storeUp

\* C18: a step in which an AI failure, a persistence failure, a missing-context
\* request or a malformed request happens leaves the broadcast timer, the
\* process and the set of connected subscribers as they were, and while the
\* timer exists a tick can always fire.
C18_ErrorsLeaveBroadcastAlone ==
    /\ [][ ErrorStep => /\ timers' = timers
                        /\ connected' = connected
                        /\ exitCode' = None ]_vars
    /\ [](listening => timers > 0 /\ exitCode = None /\ ENABLED TickStep)

\* with a subscriber connected and the timer running, a failed AI call was
\* just answered with the canned text
C18_Witness ==
    /\ hist.op = "ai_settled"
    /\ connected # {}
    /\ timers > 0
    /\ exitCode = None
    /\ response # None
    /\ response[1].body.data.response = ConnectTroubleText

(***************************************************************************)
(* Properties of the subscriber requests.                                  *)
(***************************************************************************)
\* the reply event of each named request
ReplyEvent ==
    [request_sensor_data |-> "sensor_data", request_process_data |-> "process_data",
     request_status |-> "server_status", ping |-> "pong"]

\* C20: each named request (request_sensor_data, request_process_data,
\* request_status, ping) is answered in the same step with exactly one event,
\* the reply that belongs to it, sent to the requesting subscriber only.
OneReply(s, request) ==
    /\ Cardinality(emitted') = 1
    /\ \A m \in emitted' : m.to = s /\ m.event = ReplyEvent[request]

C20_OneDirectReply ==
    [][ \A s \in Sockets :
          /\ RequestSensorData(s) => OneReply(s, "request_sensor_data")
          /\ (\E e \in EfficiencyDraws : RequestProcessData(s, e))
                => OneReply(s, "request_process_data")
          /\ \A event \in UnhandledEvents :
                UnhandledRequest(s, event) => OneReply(s, event) ]_vars

(***************************************************************************)
(* Properties of the generators.                                           *)
(***************************************************************************)
\* the last tick synthesized its snapshot (it did not replay a real record)
SynthesizedTick ==
    hist.op = "tick" /\ ~(hist.enabledBefore /\ Len(realDataSource) > 0)

\* C21: in every synthesized snapshot plant_overview.production_rate_current
\* equals the same snapshot's current_parameters.production_rate, and
\* environmental_data.waste_heat_recovery is that production rate scaled.
C21_SameSnapshotFigures ==
    SynthesizedTick =>
        LET snapshot == latestDashboardData[1] IN
        /\ snapshot.plant_overview.production_rate_current =
               snapshot.current_parameters.production_rate
        /\ \E h \in HeatDraws :
               snapshot.environmental_data.waste_heat_recovery =
                   snapshot.current_parameters.production_rate * h

\* C22: a request for process parameters (socket request_process_data or
\* GET /api/process/parameters) leaves the snapshot of the next tick as it
\* would have been without the request, whatever the tick draws.
C22_RequestLeavesNextSnapshot ==
    [][ hist'.op \in {"request_process_data", "get_process_parameters"}
        => \A e \in EfficiencyDraws, q1 \in FaultDraws, q2 \in FaultDraws, h \in HeatDraws :
              broadcastDashboard(now + 1, e, q1, q2, h)' =
                  broadcastDashboard(now + 1, e, q1, q2, h) ]_vars

\* the number of units, of the eight, that a status sample finds not running
EquipmentFaultDraws == {0, 1, 2}

\* timer firings whose equipment samples find stopped units
FaultyTickStep ==
    \E e \in EfficiencyDraws, q1 \in EquipmentFaultDraws,
       q2 \in EquipmentFaultDraws, h \in HeatDraws : Tick(e, q1, q2, h)

NextEquipment ==
    \/ StartServer
    \/ (now < MaxTicks /\ FaultyTickStep)
    \/ \E e \in EfficiencyDraws, q1 \in EquipmentFaultDraws,
          q2 \in EquipmentFaultDraws, h \in HeatDraws : GetDashboardData(e, q1, q2, h)

SpecEquipment == Init /\ [][NextEquipment]_vars

runningEntries(equipmentStatus) ==
    Cardinality({i \in DOMAIN equipmentStatus : equipmentStatus[i] = "running"})

\* C23: a synthesized snapshot takes plant_overview.equipment_running_count
\* from the sample generatePlantOverview draws itself and equipment_status
\* from a second sample, so the count need not be the number of 'running'
\* entries of the list beside it.
C23_OwnEquipmentSample ==
    [][ \A e \in EfficiencyDraws, q1 \in EquipmentFaultDraws,
           q2 \in EquipmentFaultDraws, h \in HeatDraws :
          (Tick(e, q1, q2, h) /\ ~useRealData) =>
              LET snapshot == latestDashboardData'[1] IN
              /\ snapshot.plant_overview.equipment_running_count = equipment_total - q1
              /\ runningEntries(snapshot.equipment_status) = equipment_total - q2 ]_vars

C23_Witness ==
    /\ SynthesizedTick
    /\ latestDashboardData[1].plant_overview.equipment_running_count
           # runningEntries(latestDashboardData[1].equipment_status)

(***************************************************************************)
(* The signal synthesizer in full (dataGenerator.ts 27-37, 123-149).       *)
(* Figures are kept in hundredths, the efficiency factor and the results   *)
(* of Math.random() and Math.sin() in thousandths, and the figures scaled  *)
(* by the efficiency in thousandths.  Elapsed time is counted in hours:    *)
(* every period of the generator (4, 6, 8 and 24 hours) then turns the     *)
(* angle by a multiple of 15 degrees.                                      *)
(***************************************************************************)
Max(a, b) == IF a > b THEN a ELSE b

\* Math.random(): 0 <= x < 1
RandomDraws == {0, 500, 999}
\* hours since baseTime: one whole production cycle
ElapsedHours == 0..23

\* Math.sin at k times 15 degrees
SineTable ==
    <<0, 259, 500, 707, 866, 966, 1000, 966, 866, 707, 500, 259,
      0, -259, -500, -707, -866, -966, -1000, -966, -866, -707, -500, -259>>
sin(k) == SineTable[(k % Len(SineTable)) + 1]

\* getRandomInRange without its final clamp
getRandomInRangeUnclamped(min, max, noise, r1, r2) ==
    LET base == min + (r1 * (max - min)) \div 1000
        noiseValue == (base * ((noise * (r2 - 500) * 2) \div 1000)) \div 1000
    IN base + noiseValue

getRandomInRange(min, max, noise, r1, r2) ==
    LET base == min + (r1 * (max - min)) \div 1000
        noiseValue == (base * ((noise * (r2 - 500) * 2) \div 1000)) \div 1000
    IN Max(min, Min(max, base + noiseValue))

\* sin(2 * PI * timeInHours / period): period divides 24
generateCyclicalValue(baseValue, amplitude, period, timeInHours) ==
    LET cyclical == sin(timeInHours * (Len(SineTable) \div period))
    IN baseValue + (amplitude * cyclical) \div 1000

\* the whole ProcessParameters record of generateProcessParameters
ProcessParameters(timeHours, re1, re2, r1, r2) ==
    LET productionCycle == sin(timeHours)
        efficiency == 800 + (150 * productionCycle) \div 1000
                          + getRandomInRange(-50, 50, 500, re1, re2)
    IN [timestamp |-> timeHours,
        kiln_temperature |-> generateCyclicalValue(145000, 4000, 4, timeHours),
        kiln_pressure |-> getRandomInRange(-1500, -500, 100, r1, r2),
        raw_mill_power |->
            (generateCyclicalValue(280000, 20000, 6, timeHours) * efficiency) \div 100,
        cement_mill_power |->
            (generateCyclicalValue(320000, 25000, 8, timeHours) * efficiency) \div 100,
        production_rate |-> plant_capacity * efficiency,
        energy_consumption |->
            (getRandomInRange(8500, 10500, 100, r1, r2) * 1000) \div efficiency,
        alternative_fuel_rate |-> getRandomInRange(1500, 3500, 100, r1, r2),
        raw_meal_flow |-> (plant_capacity * 155 * efficiency) \div 100,
        cement_fineness |-> getRandomInRange(34000, 38000, 100, r1, r2),
        clinker_temperature |-> getRandomInRange(110000, 120000, 100, r1, r2),
        exhaust_fan_speed |-> getRandomInRange(48000, 52000, 100, r1, r2),
        preheater_temperature |-> getRandomInRange(32000, 38000, 100, r1, r2)]

\* GET /api/process/parameters (index.ts 368-383) with the record in full
GetProcessParametersInFull(timeHours, re1, re2, r1, r2) ==
    LET processParams == ProcessParameters(timeHours, re1, re2, r1, r2) IN
    /\ listening
    /\ lastParameters' = Some(processParams)
    /\ response' = Ok("/api/process/parameters", [success |-> TRUE, data |-> processParams])
    /\ emitted' = {}
    /\ hist' = Record("get_process_parameters")
    /\ UNCHANGED <<assistantVars, startupVars, aiVars, listening, timers, now, latestDashboardData, switchVars,
                   simulationRunning, socketVars, replayRun>>

\* the record is a function of the elapsed time and the draws alone, so the
\* first request of a behaviour already meets every one of them
NextParameters ==
    \/ StartServer
    \/ /\ lastParameters = None
       /\ \E timeHours \in ElapsedHours, re1 \in RandomDraws, re2 \in RandomDraws,
             r1 \in RandomDraws, r2 \in RandomDraws :
               GetProcessParametersInFull(timeHours, re1, re2, r1, r2)

SpecParameters == Init /\ [][NextParameters]_vars

Within(x, min, max) == min <= x /\ x <= max

\* C24: every field of a generated ProcessParameters record lies within its
\* bound for every random draw and every elapsed time: the bounded random
\* figures inside [min, max], kiln_temperature inside 1450 +/- 40, and the
\* power, production rate, flow and energy figures not negative.
C24_ParametersBounded ==
    lastParameters # None =>
        LET p == lastParameters[1] IN
        /\ Within(p.kiln_temperature, 141000, 149000)
        /\ Within(p.kiln_pressure, -1500, -500)
        /\ Within(p.alternative_fuel_rate, 1500, 3500)
        /\ Within(p.cement_fineness, 34000, 38000)
        /\ Within(p.clinker_temperature, 110000, 120000)
        /\ Within(p.exhaust_fan_speed, 48000, 52000)
        /\ Within(p.preheater_temperature, 32000, 38000)
        /\ p.raw_mill_power >= 0
        /\ p.cement_mill_power >= 0
        /\ p.production_rate >= 0
        /\ p.raw_meal_flow >= 0
        /\ p.energy_consumption >= 0

\* a record generated at the bottom of the production cycle with the
\* largest upward jitter on a draw at the top of its range
C24_Witness ==
    /\ hist.op = "get_process_parameters"
    /\ lastParameters # None
    /\ lastParameters[1].timestamp = 18
    /\ lastParameters[1].alternative_fuel_rate = 3500
    /\ lastParameters[1].production_rate < plant_capacity * 700

(***************************************************************************)
(* The status report of the data source switch.                            *)
(***************************************************************************)
NextStatus ==
    \/ StartServer
    \/ (now < MaxStatusTicks /\ TickStep)
    \/ \E dataType \in DataTypes : Load(dataType)
    \/ Toggle
    \/ Status

SpecStatus == Init /\ [][NextStatus]_vars

\* the record the next tick replays, if it replays one
nextRecord == IF useRealData THEN Some(currentRealData) ELSE None

\* C25: the nextRecord of GET /api/real-data/status is the record the next
\* tick broadcasts when no load or toggle comes in between: a tick that
\* follows the report replays exactly that record, synthesizes exactly when
\* the report was null, and only a load, a toggle or a tick changes the
\* record that is next.
C25_NextRecordIsBroadcast ==
    [][ /\ (hist.op = "status" /\ hist'.op = "tick") =>
              LET reported == response[1].body.data.nextRecord
                  snapshot == latestDashboardData'[1]
              IN IF reported = None
                 THEN \E e \in EfficiencyDraws, q1 \in FaultDraws, q2 \in FaultDraws,
                         h \in HeatDraws :
                         snapshot = SimulatedDashboard(lastParameters, now', e, q1, q2, h)
                 ELSE \E q \in FaultDraws :
                         snapshot = generateDashboardFromRealData(reported[1], now', q)
        /\ hist'.op \notin {"load", "toggle", "tick"} => nextRecord' = nextRecord ]_vars

\* a report made after the replay has wrapped around the ten records
C25_Witness ==
    /\ hist.op = "status"
    /\ useRealData
    /\ realDataIndex >= Len(realDataSource)
    /\ response[1].body.data.nextRecord = Some(realDataSource[1])

(***************************************************************************)
(* The simulator's running flag (dataGenerator.ts 268-280) and the routes  *)
(* that set and report it.                                                 *)
(***************************************************************************)
isRunning == simulationRunning

SimulationFrame(op) ==
    /\ listening
    /\ emitted' = {}
    /\ hist' = Record(op)
    /\ UNCHANGED <<assistantVars, startupVars, aiVars, listening, timers, now, latestDashboardData, switchVars,
                   lastParameters, socketVars, replayRun>>

\* POST /api/simulation/start (index.ts 477-492): startSimulation()
SimulationStart ==
    /\ SimulationFrame("simulation_start")
    /\ simulationRunning' = TRUE
    /\ response' = Ok("/api/simulation/start",
                      [success |-> TRUE, message |-> "Simulation started"])

\* POST /api/simulation/stop (index.ts 494-509): stopSimulation()
SimulationStop ==
    /\ SimulationFrame("simulation_stop")
    /\ simulationRunning' = FALSE
    /\ response' = Ok("/api/simulation/stop",
                      [success |-> TRUE, message |-> "Simulation stopped"])

\* GET /api/health (index.ts 48-58)
Health ==
    /\ SimulationFrame("health")
    /\ simulationRunning' = simulationRunning
    /\ response' = Ok("/api/health",
                      [success |-> TRUE, simulation_running |-> isRunning,
                       connected_clients |-> Cardinality(connected)])

NextSimulation ==
    \/ StartServer
    \/ (now < MaxTicks /\ TickStep)
    \/ \E s \in Observers : Connect(s)
    \/ SimulationStart
    \/ SimulationStop
    \/ Health

SpecSimulation == Init /\ [][NextSimulation]_vars

\* everything but the running flag and the answer of the request
besidesRunningFlag ==
    <<startupVars, aiVars, listening, timers, now, latestDashboardData, switchVars,
      lastParameters, socketVars>>

\* C26: the running flag does not gate broadcasting: the start and stop
\* routes change nothing but the value isRunning() returns, and while
\* isRunning() is false a started timer still fires, and its tick makes,
\* caches and broadcasts a snapshot.
C26_FlagDoesNotGate ==
    [][ /\ hist'.op \in {"simulation_start", "simulation_stop"} =>
              /\ besidesRunningFlag' = besidesRunningFlag
              /\ isRunning' = (hist'.op = "simulation_start")
        /\ (~isRunning /\ timers > 0 /\ now < MaxTicks) => ENABLED TickStep
        /\ (~isRunning /\ hist'.op = "tick") =>
              /\ latestDashboardData' # None
              /\ latestDashboardData'[1].plant_overview.timestamp = now'
              /\ emitted' = dashboardUpdates(connected, latestDashboardData'[1])
              /\ \A s \in connected : received'[s] = Append(received[s], now') ]_vars

\* a tick has broadcast to a subscriber after POST /api/simulation/stop
C26_Witness ==
    /\ ~isRunning
    /\ timers > 0
    /\ hist.op = "tick"
    /\ latestDashboardData # None
    /\ latestDashboardData[1].plant_overview.timestamp = now
    /\ \E s \in connected : emitted = dashboardUpdates({s}, latestDashboardData[1])

(***************************************************************************)
(* GET and DELETE /api/ai/system-prompt (index.ts 804-822, 862-879).       *)
(***************************************************************************)
SystemPromptFrame(op) ==
    /\ listening
    /\ emitted' = {}
    /\ hist' = Record(op)
    /\ UNCHANGED <<assistantVars, startupVars, calls, storeUp, analysisData, listening, timers, now,
                   latestDashboardData, switchVars, generatorVars, socketVars,
                   replayRun>>

getCustomSystemPrompt == customSystemPrompt

GetSystemPrompt ==
    LET currentPrompt == getCustomSystemPrompt IN
    /\ SystemPromptFrame("GET /api/ai/system-prompt")
    /\ response' = Ok("/api/ai/system-prompt",
                      [success |-> TRUE, systemPrompt |-> currentPrompt,
                       isCustom |-> currentPrompt # None])
    /\ UNCHANGED <<customSystemPrompt, inflight>>

\* mutant: clearing the prompt also resets the prompt of the requests in flight
DeleteSystemPromptInFlight ==
    /\ SystemPromptFrame("DELETE /api/ai/system-prompt")
    /\ customSystemPrompt' = None
    /\ inflight' = [i \in DOMAIN inflight |->
                       [inflight[i] EXCEPT !.systemPrompt = DefaultSystemPrompt]]
    /\ response' = Ok("/api/ai/system-prompt",
                      [success |-> TRUE,
                       message |-> "Custom system prompt cleared, reverted to default"])

DeleteSystemPrompt ==
    /\ SystemPromptFrame("DELETE /api/ai/system-prompt")
    /\ customSystemPrompt' = None
    /\ inflight' = inflight
    /\ response' = Ok("/api/ai/system-prompt",
                      [success |-> TRUE,
                       message |-> "Custom system prompt cleared, reverted to default"])

NextPrompt ==
    \/ StartServer
    \/ (now < MaxAITicks /\ TickStep)
    \/ Chat
    \/ \E i \in 1..MaxInFlight, outcome \in AiOutcomes : AiSettles(i, outcome)
    \/ \E systemPrompt \in SystemPromptInputs : PostSystemPrompt(systemPrompt)
    \/ GetSystemPrompt
    \/ DeleteSystemPrompt

SpecPrompt == Init /\ [][NextPrompt]_vars

\* a stored prompt is a trimmed string of at least 10 characters
wellFormedPrompt(prompt) ==
    prompt = None \/ (trim(prompt[1]) = prompt[1] /\ Len(prompt[1]) >= 10)

\* C27: the stored custom system prompt is null or a trimmed string of at
\* least 10 characters: an accepted POST stores the trimmed submitted prompt,
\* a refused POST stores nothing, DELETE stores null, and GET reports the
\* stored prompt with isCustom true exactly when it is not null.
C27_StoredPromptWellFormed ==
    [][ /\ wellFormedPrompt(customSystemPrompt')
        /\ \A systemPrompt \in SystemPromptInputs :
              PostSystemPrompt(systemPrompt) =>
                  IF response'[1].status = 200
                  THEN customSystemPrompt' = Some(trim(systemPrompt.value))
                  ELSE customSystemPrompt' = customSystemPrompt
        /\ hist'.op = "DELETE /api/ai/system-prompt" => customSystemPrompt' = None
        /\ hist'.op = "GET /api/ai/system-prompt" =>
              /\ customSystemPrompt' = customSystemPrompt
              /\ response'[1].body.systemPrompt = customSystemPrompt
              /\ response'[1].body.isCustom = (customSystemPrompt # None) ]_vars

\* GET reports the trimmed prompt that a POST with blanks around it stored
C27_Witness ==
    /\ hist.op = "GET /api/ai/system-prompt"
    /\ response[1].body.isCustom
    /\ response[1].body.systemPrompt = Some(Letters(11))

\* C28: an AI request keeps the system prompt that was in force when it
\* started: the request is started with the prompt built at that moment,
\* and a set or clear of the custom prompt while the request waits for the
\* AI service leaves the request as it is.
C28_PromptFixedAtStart ==
    [][ /\ Chat => inflight'[Len(inflight')].systemPrompt = buildSystemPrompt
        /\ hist'.op # "ai_settled" =>
              \A i \in DOMAIN inflight :
                  /\ i \in DOMAIN inflight'
                  /\ inflight'[i].systemPrompt = inflight[i].systemPrompt ]_vars

\* the custom prompt was cleared while a request started under it is waiting
C28_Witness ==
    /\ hist.op = "DELETE /api/ai/system-prompt"
    /\ inflight # <<>>
    /\ inflight[1].systemPrompt = Letters(10)
    /\ buildSystemPrompt = DefaultSystemPrompt

(***************************************************************************)
(* The quality analyses that are handed to the persistence store.          *)
(***************************************************************************)
NextAnalysis ==
    \/ StartServer
    \/ (now < MaxTicks /\ TickStep)
    \/ QualityFluctuations
    \/ \E currentData \in CurrentDataInputs : ProactiveQualityCorrections(currentData)
    \/ \E i \in 1..MaxInFlight, outcome \in AiOutcomes : AiSettles(i, outcome)

SpecAnalysis == Init /\ [][NextAnalysis]_vars

\* C29: the plant data recorded with a quality analysis is that of the
\* snapshot the analysis was computed from, also when ticks replaced the
\* latest snapshot while the AI call was pending.
C29_RecordedDataOfSameSnapshot ==
    [][ \A i \in 1..MaxInFlight, outcome \in AiOutcomes :
          (AiSettles(i, outcome) /\ analysisData' # None) =>
              analysisData'[1].plant_data = inflight[i].dashboardData[1].plant_overview ]_vars

(***************************************************************************)
(* The AI assistant component (frontend/src/components/AIAssistant.tsx).   *)
(* A handler called from the rendered elements sees the state of the       *)
(* latest render.  The window listeners are registered by an effect with   *)
(* an empty dependency list, so they keep the closures of the first        *)
(* render: isLoading as useState(false) gave it, dashboardData as the      *)
(* first render received it.  The list of messages is not carried.         *)
(***************************************************************************)
serverVars ==
    <<listening, timers, now, latestDashboardData, switchVars, generatorVars,
      socketVars, response, emitted, hist, replayRun, startupVars, aiVars>>

\* the text field: empty, blank, a question
InputTexts == {<<>>, Spaces(2), Letters(3)}
\* event.detail?.question of selectPredefinedQuestion: left out, or a question
PredefinedQuestions == {<<>>, Letters(4)}

\* isLoading in the closure of the first render
effectIsLoading == FALSE

\* the first render and its effects
Mount(data) ==
    /\ ~mounted
    /\ mounted' = TRUE
    /\ dashboardDataProp' = data
    /\ effectData' = data
    /\ UNCHANGED <<serverVars, inputText, isLoading, pending, timeouts>>

\* the parent renders the component with another dashboardData
SetDashboardData(data) ==
    /\ mounted
    /\ data # dashboardDataProp
    /\ dashboardDataProp' = data
    /\ UNCHANGED <<serverVars, mounted, effectData, inputText, isLoading, pending, timeouts>>

\* onChange of the text field, which is disabled while isLoading
ChangeInput(text) ==
    /\ mounted
    /\ ~isLoading
    /\ inputText' = text
    /\ UNCHANGED <<serverVars, mounted, dashboardDataProp, effectData, isLoading, pending,
                   timeouts>>

\* handleSendMessage in a closure that holds `text' and `loading', up to
\* its await of fetch
handleSendMessage(text, loading) ==
    IF trim(text) = <<>> \/ loading
    THEN UNCHANGED <<inputText, isLoading, pending>>
    ELSE /\ inputText' = <<>>
         /\ isLoading' = TRUE
         /\ pending' = pending + 1

\* the send button or the Enter key, both disabled while isLoading
SendMessage ==
    /\ mounted
    /\ ~isLoading
    /\ pending < MaxPending
    /\ handleSendMessage(inputText, isLoading)
    /\ UNCHANGED <<serverVars, mounted, dashboardDataProp, effectData, timeouts>>

\* handleQuickQuestion: a chip is clicked
QuickQuestion ==
    /\ mounted
    /\ inputText' = Letters(3)
    /\ timeouts' = timeouts \cup {[inputText |-> inputText, isLoading |-> isLoading]}
    /\ UNCHANGED <<serverVars, mounted, dashboardDataProp, effectData, isLoading, pending>>

\* the setTimeout callback of handleQuickQuestion runs handleSendMessage of
\* the render the chip was clicked in
QuickQuestionTimeout(closure) ==
    /\ closure \in timeouts
    /\ pending < MaxPending
    /\ timeouts' = timeouts \ {closure}
    /\ handleSendMessage(closure.inputText, closure.isLoading)
    /\ UNCHANGED <<serverVars, mounted, dashboardDataProp, effectData>>

\* handleQualityAnalysis in a closure that holds `data', up to its await
handleQualityAnalysis(data) ==
    IF ~data
    THEN UNCHANGED <<isLoading, pending>>
    ELSE /\ isLoading' = TRUE
         /\ pending' = pending + 1

\* handleOptimization in a closure that holds `data', up to its await
handleOptimization(data) ==
    IF ~data
    THEN UNCHANGED <<isLoading, pending>>
    ELSE /\ isLoading' = TRUE
         /\ pending' = pending + 1

\* the quality analysis button, disabled while isLoading or without data
QualityAnalysisClick ==
    /\ mounted
    /\ ~(isLoading \/ ~dashboardDataProp)
    /\ pending < MaxPending
    /\ handleQualityAnalysis(dashboardDataProp)
    /\ UNCHANGED <<serverVars, mounted, dashboardDataProp, effectData, inputText, timeouts>>

\* an optimization button, disabled while isLoading or without data
OptimizationClick ==
    /\ mounted
    /\ ~(isLoading \/ ~dashboardDataProp)
    /\ pending < MaxPending
    /\ handleOptimization(dashboardDataProp)
    /\ UNCHANGED <<serverVars, mounted, dashboardDataProp, effectData, inputText, timeouts>>

\* window event triggerQualityAnalysis
TriggerQualityAnalysis ==
    /\ mounted
    /\ pending < MaxPending
    /\ handleQualityAnalysis(effectData)
    /\ UNCHANGED <<serverVars, mounted, dashboardDataProp, effectData, inputText, timeouts>>

\* window event triggerOptimization
TriggerOptimization ==
    /\ mounted
    /\ pending < MaxPending
    /\ handleOptimization(effectData)
    /\ UNCHANGED <<serverVars, mounted, dashboardDataProp, effectData, inputText, timeouts>>

\* window event selectPredefinedQuestion, up to its await of fetch
SelectPredefinedQuestion(question) ==
    /\ mounted
    /\ pending < MaxPending
    /\ IF question # <<>> /\ ~effectIsLoading
       THEN /\ isLoading' = TRUE
            /\ pending' = pending + 1
       ELSE UNCHANGED <<isLoading, pending>>
    /\ UNCHANGED <<serverVars, mounted, dashboardDataProp, effectData, inputText, timeouts>>

\* a fetch settles and its handler runs to the end: finally setIsLoading(false)
FetchSettles ==
    /\ pending > 0
    /\ pending' = pending - 1
    /\ isLoading' = FALSE
    /\ UNCHANGED <<serverVars, mounted, dashboardDataProp, effectData, inputText, timeouts>>

NextAssistant ==
    \/ \E data \in BOOLEAN : Mount(data)
    \/ \E data \in BOOLEAN : SetDashboardData(data)
    \/ \E text \in InputTexts : ChangeInput(text)
    \/ SendMessage
    \/ QuickQuestion
    \/ \E closure \in timeouts : QuickQuestionTimeout(closure)
    \/ QualityAnalysisClick
    \/ OptimizationClick
    \/ TriggerQualityAnalysis
    \/ TriggerOptimization
    \/ \E question \in PredefinedQuestions : SelectPredefinedQuestion(question)
    \/ FetchSettles

SpecAssistant == Init /\ [][NextAssistant]_vars

\* C30: the AI assistant component has at most one backend AI request in
\* flight, and isLoading is true exactly while a request is pending.
C30_OneRequestInFlight ==
    /\ pending <= 1
    /\ isLoading <=> (pending > 0)
====
